---- MODULE Spec2Model ----
(***************************************************************************)
(* Round-generation and feedback state machines of the two quiz-style      *)
(* mini-games of AprendePlay: ColorsQuiz (src/src/pages/ColorsQuiz.tsx)    *)
(* and SyllableGame (src/unnamed/part_001).  One page component is mounted *)
(* at a time; its useState cells are the variables below.  Every pending   *)
(* setTimeout callback is an entry of the queue `timers`.                  *)
(***************************************************************************)
EXTENDS Integers, Sequences, FiniteSets, TLC

VARIABLES
    page,               \* which page component is mounted: "home", "colors", "syllables"
                        \* ("crashed": an effect threw and React removed the tree)
    language,           \* i18n.language
    score, streak,      \* useState cells of the mounted game
    feedback,
    showParticles,
    targetColor,        \* ColorsQuiz
    options,
    isAnswering,
    currentWord,        \* SyllableGame
    syllables,
    shuffledSyllables,
    selectedSyllables,
    currentIndex,
    timers,             \* pending setTimeout callbacks, in scheduling order
    playback,           \* what the browser does with Audio playback: "plays",
                        \* "rejects" (play() rejected) or "throws"
    backgroundMusic,    \* sounds.ts: the cached music element, or NoMusic for null
    audioCreated,       \* how many music elements new Audio(...) has made so far
    detachedPlaying,    \* music elements that sounds.ts no longer refers to and
                        \* that are still playing
    isOpen,             \* Navigation: the mobile menu is open
    isLanguageOpen,     \* Navigation: the language dropdown is open
    lastOp,             \* the handler or callback that ran in the last step, with
                        \* its argument unless the call returned at once
    effects             \* calls to speak, vibrate and sounds.ts made by the last step

vars == <<page, language, score, streak, feedback, showParticles,
          targetColor, options, isAnswering,
          currentWord, syllables, shuffledSyllables, selectedSyllables,
          currentIndex, timers, playback, backgroundMusic, audioCreated,
          detachedPlaying, isOpen, isLanguageOpen, lastOp, effects>>

colorVars == <<targetColor, options, isAnswering>>
wordVars  == <<currentWord, syllables, shuffledSyllables, selectedSyllables, currentIndex>>
soundVars == <<backgroundMusic, audioCreated, detachedPlaying>>
navVars   == <<isOpen, isLanguageOpen>>

\* ---------------------------------------------------------------- bounds
MaxScore  == 20     \* rounds are not won any more once score reaches this
MaxTimers == 3      \* at most this many callbacks are pending at once
MaxInstances == 2   \* at most this many music elements are ever created

\* ------------------------------------------------------------- datasets
NULL == "null"

\* colors.json: the list of colour items, each named by its id
colors == <<"red", "blue", "green", "yellow", "purple">>

\* words.json: id and the per-language syllable lists
words == <<
    [id |-> "bola",   syllables_pt |-> <<"BO", "LA">>,
                      syllables_en |-> <<"BALL">>,
                      syllables_es |-> <<"PE", "LO", "TA">>],
    [id |-> "banana", syllables_pt |-> <<"BA", "NA", "NA">>,
                      syllables_en |-> <<"BA", "NA", "NA">>,
                      syllables_es |-> <<"BA", "NA", "NA">>] >>

\* the languages the navigation bar offers
languages == {"pt", "en", "es"}

\* ------------------------------------------------------------- helpers
Range(s) == {s[i] : i \in DOMAIN s}

Min(a, b) == IF a < b THEN a ELSE b

\* [...xs].sort(() => Math.random() - 0.5): some rearrangement of xs
Shuffles(xs) ==
    {[i \in 1..Len(xs) |-> xs[p[i]]] : p \in Permutations(1..Len(xs))}

\* splice(0, 1) in place of splice(index, 1)
Splice_First(xs, index) == Tail(xs)

\* newShuffled.splice(index, 1), index counted from 1 here
Splice(xs, index) ==
    [i \in 1..(Len(xs) - 1) |-> IF i < index THEN xs[i] ELSE xs[i + 1]]

\* ------------------------------------------------------------ sounds.ts
\* what the browser may do with a playback request
Playbacks == {"plays", "rejects", "throws"}

\* the sound functions without their try/catch: a thrown exception leaves them
SoundCall_NoTry(outcome) == IF outcome = "throws" THEN "error" ELSE "returned"

\* what the caller of playCorrectSound, playWrongSound or playBackgroundMusic
\* sees: a rejected play() ends in its .catch, an exception in the catch block
SoundCall(outcome) ==
    CASE outcome = "plays"   -> "returned"
      [] outcome = "rejects" -> "returned"
      [] outcome = "throws"  -> "returned"

\* let backgroundMusic: HTMLAudioElement | null = null.  Volumes are in
\* tenths; currentTime is 0 (the start) or 1 (any later position)
NoMusic == [exists |-> FALSE, paused |-> TRUE, loop |-> FALSE, volume |-> 0, currentTime |-> 0]

\* the module as the browser loads it
NoSounds == backgroundMusic = NoMusic /\ audioCreated = 0 /\ detachedPlaying = 0

\* new Audio(SOUNDS.background): paused at the start, volume 1, no loop
NewAudio == [exists |-> TRUE, paused |-> TRUE, loop |-> FALSE, volume |-> 10, currentTime |-> 0]

\* HTMLMediaElement.volume accepts 0..1 and throws IndexSizeError otherwise
VolumeAccepted(volume) == 0 <= volume /\ volume <= 10

\* backgroundMusic.play(): the element plays unless the browser rejects
AfterPlay(audio, outcome) == IF outcome = "plays" THEN [audio EXCEPT !.paused = FALSE] ELSE audio

\* a playBackgroundMusic without the cache: a fresh element on every call
playBackgroundMusic_NewEachTime(volume) ==
    /\ audioCreated < MaxInstances
    /\ IF playback = "throws"
       THEN UNCHANGED soundVars
       ELSE /\ backgroundMusic' =
                  AfterPlay([NewAudio EXCEPT !.loop = TRUE, !.volume = volume], playback)
            /\ audioCreated' = audioCreated + 1
            /\ detachedPlaying' = detachedPlaying +
                  (IF backgroundMusic.exists /\ ~backgroundMusic.paused THEN 1 ELSE 0)

\* playBackgroundMusic(volume).  With playback "throws" the constructor (no
\* element yet) or play() throws; the catch block logs a warning
playBackgroundMusic(volume) ==
    /\ ~backgroundMusic.exists => audioCreated < MaxInstances
    /\ IF backgroundMusic.exists
       THEN /\ backgroundMusic' = IF backgroundMusic.paused /\ playback # "throws"
                                  THEN AfterPlay(backgroundMusic, playback)
                                  ELSE backgroundMusic
            /\ UNCHANGED <<audioCreated, detachedPlaying>>
       ELSE IF playback = "throws"
       THEN UNCHANGED soundVars
       ELSE /\ audioCreated' = audioCreated + 1
            /\ backgroundMusic' =
                  IF VolumeAccepted(volume)
                  THEN AfterPlay([NewAudio EXCEPT !.loop = TRUE, !.volume = volume], playback)
                  ELSE [NewAudio EXCEPT !.loop = TRUE]
            /\ UNCHANGED detachedPlaying

\* stopBackgroundMusic(): pause() and currentTime = 0
Stopped(audio) == IF audio.exists THEN [audio EXCEPT !.paused = TRUE, !.currentTime = 0] ELSE audio

stopBackgroundMusic ==
    /\ backgroundMusic' = Stopped(backgroundMusic)
    /\ UNCHANGED <<audioCreated, detachedPlaying>>

\* Math.max(0, Math.min(1, volume))
Clamp(volume) == IF volume < 0 THEN 0 ELSE IF volume > 10 THEN 10 ELSE volume

\* setBackgroundMusicVolume(volume)
setBackgroundMusicVolume(volume) ==
    /\ backgroundMusic' = IF backgroundMusic.exists
                          THEN [backgroundMusic EXCEPT !.volume = Clamp(volume)]
                          ELSE backgroundMusic
    /\ UNCHANGED <<audioCreated, detachedPlaying>>

\* a cleanupSounds that drops the element without stopping it
cleanupSounds_NoStop ==
    /\ backgroundMusic' = NoMusic
    /\ detachedPlaying' = detachedPlaying +
          (IF backgroundMusic.exists /\ ~backgroundMusic.paused THEN 1 ELSE 0)
    /\ UNCHANGED audioCreated

\* cleanupSounds(): stopBackgroundMusic(), then backgroundMusic = null
cleanupSounds ==
    /\ backgroundMusic' = NoMusic
    /\ detachedPlaying' = detachedPlaying +
          (IF Stopped(backgroundMusic).exists /\ ~Stopped(backgroundMusic).paused
           THEN 1 ELSE 0)
    /\ UNCHANGED audioCreated

\* side-effect calls; the locale tag passed to speak is not part of the model
Fx(name, arg) == [fx |-> name, arg |-> arg]
speak(text)      == Fx("speak", text)
vibrate(pattern) == Fx("vibrate", pattern)

\* a pending setTimeout callback: what it does, its delay in ms, whether the
\* component that scheduled it is still mounted, and the item its closure captured
Timer(kind, delay, live, item) ==
    [kind |-> kind, delay |-> delay, live |-> live, item |-> item]

\* timers holds the pending callbacks in the order they were scheduled
Pending == Len(timers)

Schedule(queue, t) == Append(queue, t)
Cancel(queue, i)   == [j \in 1..(Len(queue) - 1) |-> IF j < i THEN queue[j] ELSE queue[j + 1]]

\* setTimeout ordering: a callback cannot run before one that was scheduled
\* earlier with a delay that is not longer
CanFire(i) ==
    /\ i \in 1..Len(timers)
    /\ \A j \in 1..(i - 1) : timers[j].delay > timers[i].delay

\* the callbacks of an unmounted component stay scheduled (no clearTimeout in
\* either cleanup), but their setState calls no longer reach a mounted component
Orphaned(queue) == [i \in 1..Len(queue) |-> [queue[i] EXCEPT !.live = FALSE]]

\* ------------------------------------------------------ ColorsQuiz.tsx
ColorLangMap == [pt |-> "pt-BR", en |-> "en-US", es |-> "es-ES", fr |-> "fr-FR",
                 de |-> "de-DE", it |-> "it-IT", ja |-> "ja-JP", zh |-> "zh-CN"]

\* the table of ColorsQuiz with the default of SyllableGame
ColorGetLanguageCode_DefaultPt(lang) ==
    IF lang \in DOMAIN ColorLangMap THEN ColorLangMap[lang] ELSE "pt-BR"

\* langMap[lang] || 'en-US'
ColorGetLanguageCode(lang) ==
    IF lang \in DOMAIN ColorLangMap THEN ColorLangMap[lang] ELSE "en-US"

\* (color as any)[i18n.language] ?? color.pt : the colour's name in a language
colorName(color, lang) ==
    <<color, IF lang \in languages THEN lang ELSE "pt">>

\* generateNewQuiz writing the target over shuffled[0] whether or not the draw holds it
NewQuizOptions_InsertAlways(randomTarget) ==
    UNION { Shuffles([SubSeq(base, 1, Min(4, Len(base))) EXCEPT ![1] = randomTarget])
          : base \in Shuffles(colors) }

\* generateNewQuiz without the force-insert of lines 66-68
NewQuizOptions_NoInsert(randomTarget) ==
    UNION { Shuffles(SubSeq(base, 1, Min(4, Len(base)))) : base \in Shuffles(colors) }

\* the option lists generateNewQuiz can produce for a target
NewQuizOptions(randomTarget) ==
    UNION { LET shuffled == SubSeq(base, 1, Min(4, Len(base)))
                withTarget == IF randomTarget \in Range(shuffled)
                              THEN shuffled
                              ELSE [shuffled EXCEPT ![1] = randomTarget]
            IN  Shuffles(withTarget)
          : base \in Shuffles(colors) }

QuizOptions == [c \in Range(colors) |-> NewQuizOptions(c)]

\* the guard without the isAnswering test
Ignored_NoLock(answering, target) == target = NULL

\* if (isAnswering || !targetColor) return
Ignored(answering, target) == answering \/ target = NULL

\* every option taken as the right one
isCorrect_Any(selectedColor, target) == TRUE

\* selectedColor.id === targetColor.id
isCorrect(selectedColor, target) == selectedColor = target

\* a different increment, and a wrong answer that keeps the streak
ScoreAfterCorrect_Twenty(prev) == prev + 20
StreakAfterCorrect_Double(prev) == prev + 2
StreakAfterWrong_Keep(prev) == prev

\* setScore((prev) => prev + 10), setStreak((prev) => prev + 1), setStreak(0)
ScoreAfterCorrect(prev) == prev + 10
StreakAfterCorrect(prev) == prev + 1
StreakAfterWrong(prev) == 0

correctWord(lang) ==
    IF lang = "pt" THEN "certo" ELSE IF lang = "es" THEN "correcto" ELSE "correct"

\* ------------------------------------------------ SyllableGame (part_001)
WordLangMap == [pt |-> "pt-BR", en |-> "en-US", es |-> "es-ES"]

\* a table that sends every tag to the default
WordGetLanguageCode_AlwaysDefault(lang) == "pt-BR"

\* langMap[lang] || 'pt-BR'
WordGetLanguageCode(lang) ==
    IF lang \in DOMAIN WordLangMap THEN WordLangMap[lang] ELSE "pt-BR"

\* the characters of the syllable strings of the dataset, and of further
\* strings: lower and mixed case, letters of neither table, no letter at all
Chars ==
    [BO |-> <<"B", "O">>, LA |-> <<"L", "A">>, BALL |-> <<"B", "A", "L", "L">>,
     PE |-> <<"P", "E">>, LO |-> <<"L", "O">>, TA |-> <<"T", "A">>,
     BA |-> <<"B", "A">>, NA |-> <<"N", "A">>]
    @@ ("bo" :> <<"b", "o">>) @@ ("La" :> <<"L", "a">>) @@ ("ão" :> <<"ã", "o">>)
    @@ ("ÇA" :> <<"Ç", "A">>) @@ ("X" :> <<"X">>) @@ ("é" :> <<"é">>)
    @@ ("12" :> <<"1", "2">>) @@ ("y-" :> <<"y", "-">>) @@ ("" :> <<>>)

\* String.prototype.toUpperCase on the letters that occur in Chars; every
\* other character is its own upper case
UpperCase ==
    ("b" :> "B") @@ ("o" :> "O") @@ ("a" :> "A") @@ ("ã" :> "Ã") @@ ("é" :> "É")
    @@ ("y" :> "Y")

\* a syllable used as it is written
toUpperCase_Identity(cs) == cs

\* syllable.toUpperCase(), character by character
toUpperCase(cs) ==
    [i \in 1..Len(cs) |-> IF cs[i] \in DOMAIN UpperCase THEN UpperCase[cs[i]] ELSE cs[i]]

consonantNames ==
    [B |-> "Bê", C |-> "Cê", D |-> "Dê", F |-> "Éfe", G |-> "Guê",
     H |-> "Agá", J |-> "Jota", K |-> "Cá", L |-> "Éle", M |-> "Ême",
     N |-> "Êne", P |-> "Pê", Q |-> "Quê", R |-> "Érre", S |-> "Ésse",
     T |-> "Tê", V |-> "Vê", W |-> "Dábliu", X |-> "Xis", Z |-> "Zê"]

vowels == {"A", "E", "I", "O", "U", "Á", "É", "Í", "Ó", "Ú", "Ã", "Õ", "Â", "Ê", "Ô"}

\* the loop of getPhoneticSpeech over the characters cs
RECURSIVE PhoneticParts(_)
PhoneticParts(cs) ==
    IF cs = <<>> THEN <<>>
    ELSE LET char == Head(cs)
             rest == PhoneticParts(Tail(cs))
         IN  IF char \in DOMAIN consonantNames THEN <<consonantNames[char]>> \o rest
             ELSE IF char \in vowels THEN <<char>> \o rest
             ELSE rest

\* parts.join(' com ')
RECURSIVE Join(_, _)
Join(parts, sep) ==
    IF Len(parts) <= 1 THEN parts
    ELSE <<Head(parts), sep>> \o Join(Tail(parts), sep)

\* getPhoneticSpeech(syllable); the text is the sequence of its pieces
getPhoneticSpeech(syllable) ==
    LET parts == PhoneticParts(toUpperCase(Chars[syllable]))
    IN  IF Len(parts) = 0 THEN <<syllable>>
        ELSE IF Len(parts) = 1 THEN <<parts[1], ", ", syllable>>
        ELSE Join(parts, " com ") \o <<", ", syllable>>

\* a word of the dataset is held by its id
WordIds == {words[i].id : i \in DOMAIN words}
WordById(id) == CHOOSE w \in Range(words) : w.id = id

\* the Portuguese syllables whatever the language
getSyllables_Pt(word, lang) == WordById(word).syllables_pt

\* word.syllables_en / _es / _pt by i18n.language
getSyllables(word, lang) ==
    IF lang = "en" THEN WordById(word).syllables_en
    ELSE IF lang = "es" THEN WordById(word).syllables_es
    ELSE WordById(word).syllables_pt

\* word.en / word.es / word.pt : the word's name in a language
getWordName(word, lang) ==
    <<word, IF lang = "en" THEN "en" ELSE IF lang = "es" THEN "es" ELSE "pt">>

\* the expected syllable taken to be the last one of the word
correctSyllable_Last(syls, index) == syls[Len(syls)]

\* the expected syllable read from the other end of the word
correctSyllable_Reversed(syls, index) ==
    IF index < Len(syls) THEN syls[Len(syls) - index] ELSE "undefined"

\* syllables[currentIndex]; an index past the end reads undefined
correctSyllable(syls, index) ==
    IF index < Len(syls) THEN syls[index + 1] ELSE "undefined"

\* newSelected.length === syllables.length
isComplete(newSelected, syls) == Len(newSelected) = Len(syls)

\* useState initial values of both page components
\* what lastOp holds: the handler or callback, its string argument, the
\* callback record of a timer step and the pool index of a pick
NoTimer == Timer("none", 0, FALSE, NULL)
Op(name, arg) == [op |-> name, arg |-> arg, timer |-> NoTimer, index |-> 0]
TimerOp(timer) == [op |-> "timer", arg |-> timer.kind, timer |-> timer, index |-> 0]
PickOp(syllable, index) ==
    [op |-> "handleSyllableClick", arg |-> syllable, timer |-> NoTimer, index |-> index]

\* useState(false), useState(false) of Navigation
NavClosed == isOpen = FALSE /\ isLanguageOpen = FALSE

InitialCells ==
    /\ score = 0 /\ streak = 0 /\ feedback = NULL /\ showParticles = FALSE
    /\ targetColor = NULL /\ options = <<>> /\ isAnswering = FALSE
    /\ currentWord = NULL /\ syllables = <<>> /\ shuffledSyllables = <<>>
    /\ selectedSyllables = <<>> /\ currentIndex = 0

Init ==
    /\ page = "home"
    /\ language \in languages
    /\ InitialCells
    /\ timers = <<>>
    /\ playback = "plays"
    /\ NoSounds
    /\ NavClosed
    /\ lastOp = Op("init", NULL)
    /\ effects = <<>>


\* generateNewQuiz; queue is the pending callbacks before the call and live
\* tells whether the calling closure belongs to the mounted component
generateNewQuiz(queue, live) ==
    \E randomTarget \in Range(colors) :
        /\ IF live
           THEN /\ targetColor' = randomTarget
                /\ feedback' = NULL
                /\ isAnswering' = FALSE
                /\ showParticles' = FALSE
                /\ options' \in QuizOptions[randomTarget]
           ELSE UNCHANGED <<targetColor, feedback, isAnswering, showParticles, options>>
        /\ timers' = Schedule(queue, Timer("speakColor", 300, live, randomTarget))

\* navigation to /colors-quiz: first render, then the mount effect.  A page is
\* opened once the callbacks left over from the previous visit have run: they
\* belong to an unmounted component and cannot reach the state of the new one
MountColorsQuiz ==
    /\ UNCHANGED <<playback, isLanguageOpen>>
    /\ isOpen' = FALSE
    /\ playBackgroundMusic(3)
    /\ page = "home"
    /\ Pending = 0
    /\ IF SoundCall(playback) = "returned"
       THEN page' = "colors" /\ generateNewQuiz(timers, TRUE)
       ELSE page' = "crashed" /\ generateNewQuiz(timers, FALSE)
    /\ effects' = <<Fx("playBackgroundMusic", 3)>>
    /\ lastOp' = Op("mount", "colors")
    /\ UNCHANGED <<language, score, streak, wordVars>>

\* a retry callback that remembers the colour that was clicked
RetryTimer_Selected(selectedColor, target) == Timer("retry", 2800, TRUE, selectedColor)

\* the 2800ms callback of a wrong answer; its closure holds the targetColor of
\* the render that handled the click
RetryTimer(selectedColor, target) == Timer("retry", 2800, TRUE, target)

\* handleAnswerClick(selectedColor); the option buttons carry the items of options
handleAnswerClick(selectedColor) ==
    /\ UNCHANGED <<playback, soundVars, navVars>>
    /\ page = "colors"
    /\ selectedColor \in Range(options)
    /\ UNCHANGED <<page, language, wordVars>>
    /\ lastOp' = Op("handleAnswerClick",
                    IF Ignored(isAnswering, targetColor) THEN NULL ELSE selectedColor)
    /\ IF Ignored(isAnswering, targetColor)
       THEN /\ effects' = <<>>
            /\ UNCHANGED <<score, streak, feedback, showParticles, colorVars, timers>>
       ELSE IF isCorrect(selectedColor, targetColor)
       THEN /\ score < MaxScore
            /\ Pending < MaxTimers
            /\ isAnswering' = TRUE
            /\ feedback' = "correct"
            /\ score' = ScoreAfterCorrect(score)
            /\ streak' = StreakAfterCorrect(streak)
            /\ showParticles' = TRUE
            /\ IF SoundCall(playback) = "returned"
               THEN /\ effects' = <<vibrate(<<30, 50, 30>>), Fx("playCorrectSound", 5),
                                    speak(correctWord(language))>>
                    /\ timers' = Schedule(timers, Timer("newQuiz", 2500, TRUE, NULL))
               ELSE /\ effects' = <<vibrate(<<30, 50, 30>>), Fx("playCorrectSound", 5)>>
                    /\ timers' = timers
            /\ UNCHANGED <<targetColor, options>>
       ELSE /\ Pending < MaxTimers
            /\ isAnswering' = TRUE
            /\ feedback' = "incorrect"
            /\ streak' = StreakAfterWrong(streak)
            /\ IF SoundCall(playback) = "returned"
               THEN /\ effects' = <<vibrate(<<100, 50, 100, 50, 100>>),
                                    Fx("playWrongSound", 5),
                                    speak(colorName(selectedColor, language))>>
                    /\ timers' = Schedule(timers, RetryTimer(selectedColor, targetColor))
               ELSE /\ effects' = <<vibrate(<<100, 50, 100, 50, 100>>),
                                    Fx("playWrongSound", 5)>>
                    /\ timers' = timers
            /\ UNCHANGED <<score, showParticles, targetColor, options>>

\* a new-quiz callback that also clears the streak
FireNewQuiz_ResetStreak(i) ==
    /\ UNCHANGED <<playback, soundVars, navVars>>
    /\ CanFire(i) /\ timers[i].kind = "newQuiz"
    /\ generateNewQuiz(Cancel(timers, i), timers[i].live)
    /\ effects' = <<>>
    /\ lastOp' = TimerOp(timers[i])
    /\ streak' = 0
    /\ UNCHANGED <<page, language, score, wordVars>>

\* the 2500ms callback of a correct answer
FireNewQuiz(i) ==
    /\ UNCHANGED <<playback, soundVars, navVars>>
    /\ CanFire(i) /\ timers[i].kind = "newQuiz"
    /\ generateNewQuiz(Cancel(timers, i), timers[i].live)
    /\ effects' = <<>>
    /\ lastOp' = TimerOp(timers[i])
    /\ UNCHANGED <<page, language, score, streak, wordVars>>

\* shuffleOptions: the options shown, in a random order
shuffleOptions_DropFirst(prevOptions) == {Tail(p) : p \in Shuffles(prevOptions)}
shuffleOptions(prevOptions) == Shuffles(prevOptions)

\* a retry callback without setIsAnswering(false)
FireRetry_StayLocked(i) ==
    /\ UNCHANGED <<playback, soundVars, navVars>>
    /\ CanFire(i) /\ timers[i].kind = "retry"
    /\ IF timers[i].live
       THEN /\ feedback' = NULL
            /\ options' \in shuffleOptions(options)
       ELSE UNCHANGED <<feedback, options>>
    /\ timers' = Schedule(Cancel(timers, i),
                          Timer("speakColor", 300, timers[i].live, timers[i].item))
    /\ effects' = <<>>
    /\ lastOp' = TimerOp(timers[i])
    /\ UNCHANGED <<page, language, score, streak, showParticles, targetColor,
                   isAnswering, wordVars>>

\* a retry callback that starts a new quiz instead of reshuffling
FireRetry_NewQuiz(i) ==
    /\ UNCHANGED <<playback, soundVars, navVars>>
    /\ CanFire(i) /\ timers[i].kind = "retry"
    /\ generateNewQuiz(Cancel(timers, i), timers[i].live)
    /\ effects' = <<>>
    /\ lastOp' = TimerOp(timers[i])
    /\ UNCHANGED <<page, language, score, streak, wordVars>>

\* the 2800ms callback of a wrong answer
FireRetry(i) ==
    /\ UNCHANGED <<playback, soundVars, navVars>>
    /\ CanFire(i) /\ timers[i].kind = "retry"
    /\ IF timers[i].live
       THEN /\ feedback' = NULL
            /\ isAnswering' = FALSE
            /\ options' \in shuffleOptions(options)
       ELSE UNCHANGED <<feedback, isAnswering, options>>
    /\ timers' = Schedule(Cancel(timers, i),
                          Timer("speakColor", 300, timers[i].live, timers[i].item))
    /\ effects' = <<>>
    /\ lastOp' = TimerOp(timers[i])
    /\ UNCHANGED <<page, language, score, streak, showParticles, targetColor, wordVars>>

\* the 300ms callbacks that speak a colour name
FireSpeakColor(i) ==
    /\ UNCHANGED <<playback, soundVars, navVars>>
    /\ CanFire(i) /\ timers[i].kind = "speakColor"
    /\ timers' = Cancel(timers, i)
    /\ effects' = <<speak(colorName(timers[i].item, language))>>
    /\ lastOp' = TimerOp(timers[i])
    /\ UNCHANGED <<page, language, score, streak, feedback, showParticles, colorVars, wordVars>>

\* generateNewWord; queue is the pending callbacks before the call and live
\* tells whether the calling closure belongs to the mounted component
generateNewWord(queue, live) ==
    \E randomWord \in WordIds :
        LET wordSyllables == getSyllables(randomWord, language)
        IN  /\ IF live
               THEN /\ currentWord' = randomWord
                    /\ syllables' = wordSyllables
                    /\ shuffledSyllables' \in Shuffles(wordSyllables)
                    /\ selectedSyllables' = <<>>
                    /\ currentIndex' = 0
                    /\ feedback' = NULL
                    /\ showParticles' = FALSE
               ELSE UNCHANGED <<wordVars, feedback, showParticles>>
            /\ timers' = Schedule(queue, Timer("speakWord", 500, live, randomWord))

\* navigation to the syllable game: first render, then both mount effects
\* (the language effect finds currentWord still null)
MountSyllableGame ==
    /\ UNCHANGED <<playback, isLanguageOpen>>
    /\ isOpen' = FALSE
    /\ playBackgroundMusic(3)
    /\ page = "home"
    /\ Pending = 0
    /\ IF SoundCall(playback) = "returned"
       THEN page' = "syllables" /\ generateNewWord(timers, TRUE)
       ELSE page' = "crashed" /\ generateNewWord(timers, FALSE)
    /\ effects' = <<Fx("playBackgroundMusic", 3)>>
    /\ lastOp' = Op("mount", "syllables")
    /\ UNCHANGED <<language, score, streak, colorVars>>

\* the guard of handleSyllableClick: picks are ignored once the word is complete
PickIgnored_Never(fb) == FALSE
PickIgnored(fb) == fb = "complete"

\* handleSyllableClick(syllable, index); the pool buttons carry the entries
\* of shuffledSyllables and their positions
handleSyllableClick(syllable, index) ==
    /\ UNCHANGED <<playback, soundVars, navVars>>
    /\ page = "syllables"
    /\ index \in 1..Len(shuffledSyllables)
    /\ syllable = shuffledSyllables[index]
    /\ UNCHANGED <<page, language, colorVars, currentWord, syllables>>
    /\ lastOp' = IF PickIgnored(feedback) THEN Op("handleSyllableClick", NULL)
                 ELSE PickOp(syllable, index)
    /\ IF PickIgnored(feedback)
       THEN /\ effects' = <<>>
            /\ UNCHANGED <<score, streak, feedback, showParticles, shuffledSyllables,
                           selectedSyllables, currentIndex, timers>>
       ELSE IF syllable = correctSyllable(syllables, currentIndex)
       THEN LET newSelected == Append(selectedSyllables, syllable)
                newShuffled == Splice(shuffledSyllables, index)
            IN  /\ selectedSyllables' = newSelected
                /\ shuffledSyllables' = newShuffled
                /\ IF isComplete(newSelected, syllables)
                   THEN /\ score < MaxScore
                        /\ Pending + 2 <= MaxTimers
                        /\ feedback' = "complete"
                        /\ score' = score + 10
                        /\ streak' = streak + 1
                        /\ showParticles' = TRUE
                        /\ effects' = <<speak(getPhoneticSpeech(syllable)), vibrate(<<30>>),
                                        vibrate(<<30, 50, 30>>), Fx("playCorrectSound", 5)>>
                        /\ timers' = IF SoundCall(playback) = "returned"
                                     THEN Schedule(Schedule(timers,
                                              Timer("speakWord", 300, TRUE, currentWord)),
                                              Timer("newWord", 2500, TRUE, NULL))
                                     ELSE timers
                        /\ UNCHANGED currentIndex
                   ELSE /\ Pending < MaxTimers
                        /\ currentIndex' = currentIndex + 1
                        /\ feedback' = "correct"
                        /\ effects' = <<speak(getPhoneticSpeech(syllable)), vibrate(<<30>>)>>
                        /\ timers' = Schedule(timers, Timer("clearFeedback", 300, TRUE, NULL))
                        /\ UNCHANGED <<score, streak, showParticles>>
       ELSE /\ Pending < MaxTimers
            /\ feedback' = "incorrect"
            /\ streak' = 0
            /\ effects' = <<vibrate(<<100, 50, 100>>), Fx("playWrongSound", 3)>>
            /\ timers' = IF SoundCall(playback) = "returned"
                         THEN Schedule(timers, Timer("clearFeedback", 500, TRUE, NULL))
                         ELSE timers
            /\ UNCHANGED <<score, showParticles, shuffledSyllables, selectedSyllables,
                           currentIndex>>

\* the 300ms and 500ms callbacks setFeedback(null)
FireClearFeedback(i) ==
    /\ UNCHANGED <<playback, soundVars, navVars>>
    /\ CanFire(i) /\ timers[i].kind = "clearFeedback"
    /\ feedback' = IF timers[i].live THEN NULL ELSE feedback
    /\ timers' = Cancel(timers, i)
    /\ effects' = <<>>
    /\ lastOp' = TimerOp(timers[i])
    /\ UNCHANGED <<page, language, score, streak, showParticles, colorVars, wordVars>>

\* the callbacks that speak the whole word
FireSpeakWord(i) ==
    /\ UNCHANGED <<playback, soundVars, navVars>>
    /\ CanFire(i) /\ timers[i].kind = "speakWord"
    /\ timers' = Cancel(timers, i)
    /\ effects' = <<speak(getWordName(timers[i].item, language))>>
    /\ lastOp' = TimerOp(timers[i])
    /\ UNCHANGED <<page, language, score, streak, feedback, showParticles, colorVars, wordVars>>

\* the 2500ms callback of a completed word
FireNewWord(i) ==
    /\ UNCHANGED <<playback, soundVars, navVars>>
    /\ CanFire(i) /\ timers[i].kind = "newWord"
    /\ generateNewWord(Cancel(timers, i), timers[i].live)
    /\ effects' = <<>>
    /\ lastOp' = TimerOp(timers[i])
    /\ UNCHANGED <<page, language, score, streak, colorVars>>

\* a language effect without setCurrentIndex(0)
changeLanguage_KeepCursor(lng) ==
    /\ UNCHANGED <<playback, soundVars, isOpen>>
    /\ isLanguageOpen' = FALSE
    /\ lng # language
    /\ language' = lng
    /\ effects' = <<>>
    /\ lastOp' = Op("changeLanguage", lng)
    /\ IF page = "syllables" /\ currentWord # NULL
       THEN LET wordSyllables == getSyllables(currentWord, lng)
            IN  /\ syllables' = wordSyllables
                /\ shuffledSyllables' \in Shuffles(wordSyllables)
                /\ selectedSyllables' = <<>>
                /\ UNCHANGED <<currentWord, currentIndex>>
       ELSE UNCHANGED wordVars
    /\ UNCHANGED <<page, score, streak, feedback, showParticles, colorVars, timers>>

\* i18n.changeLanguage(lng) from the navigation bar; the mounted page renders
\* again and SyllableGame runs its [i18n.language] effect
changeLanguage(lng) ==
    /\ UNCHANGED <<playback, soundVars, isOpen>>
    /\ isLanguageOpen' = FALSE
    /\ lng # language
    /\ language' = lng
    /\ effects' = <<>>
    /\ lastOp' = Op("changeLanguage", lng)
    /\ IF page = "syllables" /\ currentWord # NULL
       THEN LET wordSyllables == getSyllables(currentWord, lng)
            IN  /\ syllables' = wordSyllables
                /\ shuffledSyllables' \in Shuffles(wordSyllables)
                /\ selectedSyllables' = <<>>
                /\ currentIndex' = 0
                /\ UNCHANGED currentWord
       ELSE UNCHANGED wordVars
    /\ UNCHANGED <<page, score, streak, feedback, showParticles, colorVars, timers>>

\* navigate('/'): the page component unmounts, its effect cleanup runs and
\* its state is discarded
Unmount ==
    /\ UNCHANGED <<playback, isLanguageOpen>>
    /\ isOpen' = FALSE
    /\ stopBackgroundMusic
    /\ page \in {"colors", "syllables"}
    /\ page' = "home"
    /\ score' = 0 /\ streak' = 0 /\ feedback' = NULL /\ showParticles' = FALSE
    /\ targetColor' = NULL /\ options' = <<>> /\ isAnswering' = FALSE
    /\ currentWord' = NULL /\ syllables' = <<>> /\ shuffledSyllables' = <<>>
    /\ selectedSyllables' = <<>> /\ currentIndex' = 0
    /\ timers' = Orphaned(timers)
    /\ effects' = <<Fx("stopBackgroundMusic", NULL)>>
    /\ lastOp' = Op("unmount", page)
    /\ UNCHANGED language

Next ==
    \/ MountColorsQuiz
    \/ \E c \in Range(colors) : handleAnswerClick(c)
    \/ \E i \in 1..Len(timers) : FireNewQuiz(i)
    \/ \E i \in 1..Len(timers) : FireRetry(i)
    \/ \E i \in 1..Len(timers) : FireSpeakColor(i)
    \/ MountSyllableGame
    \/ \E index \in 1..Len(shuffledSyllables) :
            handleSyllableClick(shuffledSyllables[index], index)
    \/ \E i \in 1..Len(timers) : FireClearFeedback(i)
    \/ \E i \in 1..Len(timers) : FireSpeakWord(i)
    \/ \E i \in 1..Len(timers) : FireNewWord(i)
    \/ \E lng \in languages : changeLanguage(lng)
    \/ Unmount

Spec == Init /\ [][Next]_vars

\* ------------------------------------- retrying a round of ColorsQuiz
\* The player stays on the quiz and taps options other than the target, at
\* any moment and as often as they like; every pending setTimeout callback runs.
RetryNext ==
    \/ MountColorsQuiz
    \/ \E c \in Range(colors) \ {targetColor} : handleAnswerClick(c)
    \/ \E i \in 1..Len(timers) : FireRetry(i)
    \/ \E i \in 1..Len(timers) : FireSpeakColor(i)

\* a callback that can run does run: it leaves the queue
TimersFire ==
    /\ WF_timers(\E i \in 1..Len(timers) : FireRetry(i))
    /\ WF_timers(\E i \in 1..Len(timers) : FireSpeakColor(i))

RetryFairSpec == Init /\ [][RetryNext]_vars /\ TimersFire

\* ------------------------------------------------- failing playback
\* A visit of the games in a browser that plays, rejects or throws on every
\* playback request, in one language.
AudioInit ==
    /\ page = "home"
    /\ language = "pt"
    /\ InitialCells
    /\ timers = <<>>
    /\ playback \in Playbacks
    /\ NoSounds
    /\ NavClosed
    /\ lastOp = Op("init", NULL)
    /\ effects = <<>>

AudioNext ==
    \/ MountColorsQuiz
    \/ \E c \in Range(colors) : handleAnswerClick(c)
    \/ \E i \in 1..Len(timers) : FireNewQuiz(i)
    \/ \E i \in 1..Len(timers) : FireRetry(i)
    \/ \E i \in 1..Len(timers) : FireSpeakColor(i)
    \/ MountSyllableGame
    \/ \E index \in 1..Len(shuffledSyllables) :
            handleSyllableClick(shuffledSyllables[index], index)
    \/ \E i \in 1..Len(timers) : FireClearFeedback(i)
    \/ \E i \in 1..Len(timers) : FireSpeakWord(i)
    \/ \E i \in 1..Len(timers) : FireNewWord(i)
    \/ Unmount

AudioSpec == AudioInit /\ [][AudioNext]_vars

\* ------------------------------------------- language-code resolution
\* The language tags the i18n instance is given: the tags of both tables,
\* regional forms of them and tags of neither table.
LangTags ==
    {"pt", "en", "es", "fr", "de", "it", "ja", "zh",
     "pt-BR", "en-US", "en-GB", "es-ES", "ru", "ko", "nl", ""}

LangInit ==
    /\ page = "home"
    /\ language \in LangTags
    /\ InitialCells
    /\ timers = <<>>
    /\ playback = "plays"
    /\ NoSounds
    /\ NavClosed
    /\ lastOp = Op("init", NULL)
    /\ effects = <<>>

\* i18n.language becomes tag
SetLanguage(tag) ==
    /\ UNCHANGED <<playback, soundVars, navVars>>
    /\ tag # language
    /\ language' = tag
    /\ UNCHANGED <<page, score, streak, feedback, showParticles, colorVars, wordVars,
                   timers, lastOp, effects>>

\* const langCode = getLanguageCode(i18n.language) of a ColorsQuiz render
ColorsQuizLangCode ==
    /\ UNCHANGED <<playback, soundVars, navVars>>
    /\ lastOp' = Op("ColorsQuiz.getLanguageCode", language)
    /\ effects' = <<Fx("langCode", ColorGetLanguageCode(language))>>
    /\ UNCHANGED <<page, language, score, streak, feedback, showParticles, colorVars,
                   wordVars, timers>>

\* const langCode = getLanguageCode(i18n.language) of a SyllableGame render
SyllableGameLangCode ==
    /\ UNCHANGED <<playback, soundVars, navVars>>
    /\ lastOp' = Op("SyllableGame.getLanguageCode", language)
    /\ effects' = <<Fx("langCode", WordGetLanguageCode(language))>>
    /\ UNCHANGED <<page, language, score, streak, feedback, showParticles, colorVars,
                   wordVars, timers>>

LangNext ==
    \/ \E tag \in LangTags : SetLanguage(tag)
    \/ ColorsQuizLangCode
    \/ SyllableGameLangCode

LangSpec == LangInit /\ [][LangNext]_vars

\* ------------------------------------------------------- sounds.ts
\* The functions of sounds.ts called in any order: by the mount effect and the
\* cleanup of a game (ColorsQuiz makes the same two calls as SyllableGame) and
\* by any other caller.
VolumeInputs == {-5, 0, 3, 10, 15}

SoundOp(name, volume) == [op |-> name, arg |-> NULL, timer |-> NoTimer, index |-> volume]

SoundsInit ==
    /\ page = "home"
    /\ language = "pt"
    /\ InitialCells
    /\ timers = <<>>
    /\ playback \in Playbacks
    /\ NoSounds
    /\ NavClosed
    /\ lastOp = Op("init", NULL)
    /\ effects = <<>>

gameVars == <<page, language, score, streak, feedback, showParticles, colorVars, wordVars,
              timers, playback, navVars>>

PlayBackgroundMusic(volume) ==
    /\ playBackgroundMusic(volume)
    /\ lastOp' = SoundOp("playBackgroundMusic", volume)
    /\ effects' = <<>>
    /\ UNCHANGED gameVars

StopBackgroundMusic ==
    /\ stopBackgroundMusic
    /\ lastOp' = SoundOp("stopBackgroundMusic", 0)
    /\ effects' = <<>>
    /\ UNCHANGED gameVars

SetBackgroundMusicVolume(volume) ==
    /\ setBackgroundMusicVolume(volume)
    /\ lastOp' = SoundOp("setBackgroundMusicVolume", volume)
    /\ effects' = <<>>
    /\ UNCHANGED gameVars

CleanupSounds ==
    /\ cleanupSounds
    /\ lastOp' = SoundOp("cleanupSounds", 0)
    /\ effects' = <<>>
    /\ UNCHANGED gameVars

\* the looping music plays on: its position leaves the start
MusicPlaysOn ==
    /\ backgroundMusic.exists /\ ~backgroundMusic.paused /\ backgroundMusic.currentTime = 0
    /\ backgroundMusic' = [backgroundMusic EXCEPT !.currentTime = 1]
    /\ lastOp' = SoundOp("timeupdate", 0)
    /\ effects' = <<>>
    /\ UNCHANGED <<gameVars, audioCreated, detachedPlaying>>

SoundsNext ==
    \/ \E volume \in VolumeInputs : PlayBackgroundMusic(volume)
    \/ StopBackgroundMusic
    \/ \E volume \in VolumeInputs : SetBackgroundMusicVolume(volume)
    \/ CleanupSounds
    \/ MusicPlaysOn
    \/ MountSyllableGame
    \/ Unmount
    \/ \E i \in 1..Len(timers) : FireSpeakWord(i)

SoundsSpec == SoundsInit /\ [][SoundsNext]_vars

\* ------------------------------------------------------- Navigation
\* The elements of the navigation bar a press can land on, and any place
\* outside the bar.
NavTargets == {"hamburger", "languageButton", "languageOption", "menuLink", "elsewhere"}

\* what is in the document: the mobile menu and the dropdown only while open
Rendered(target) ==
    CASE target = "menuLink"       -> isOpen
      [] target = "languageOption" -> isLanguageOpen
      [] OTHER                     -> TRUE

\* menuRef is on the mobile menu; the hamburger button is its sibling
InsideMenu(target) == target = "menuLink"
\* languageRef wraps the language button and its dropdown
InsideLanguage(target) == target \in {"languageButton", "languageOption"}

\* the last step, for the presses: index tells whether the mobile menu was
\* open when the press began
NavOp(name, target, wasOpen) ==
    [op |-> name, arg |-> target, timer |-> NoTimer, index |-> IF wasOpen THEN 1 ELSE 0]

NavInit ==
    /\ page = "home"
    /\ language = "pt"
    /\ InitialCells
    /\ timers = <<>>
    /\ playback = "plays"
    /\ NoSounds
    /\ NavClosed
    /\ lastOp = Op("init", NULL)
    /\ effects = <<>>

pageVars == <<page, language, score, streak, feedback, showParticles, colorVars, wordVars,
              timers, playback, soundVars>>

\* mousedown on target: handleClickOutside runs if the effect has registered
\* it (isOpen || isLanguageOpen at the last render); the refs are set while
\* their element is rendered; React renders again before the next event
MouseDown(target) ==
    /\ Rendered(target)
    /\ LET registered  == isOpen \/ isLanguageOpen
           menuRef     == isOpen
           languageRef == TRUE
       IN  /\ isOpen' = IF registered /\ menuRef /\ ~InsideMenu(target)
                        THEN FALSE ELSE isOpen
           /\ isLanguageOpen' = IF registered /\ languageRef /\ ~InsideLanguage(target)
                                THEN FALSE ELSE isLanguageOpen
    /\ lastOp' = NavOp("mousedown", target, isOpen)
    /\ effects' = <<>>
    /\ UNCHANGED pageVars

\* The click that ends the press begun by the last step.
ClickOn(target) == lastOp.op = "mousedown" /\ lastOp.arg = target

\* hamburger onClick={() => setIsOpen(!isOpen)}, isOpen of the last render
ClickHamburger ==
    /\ ClickOn("hamburger")
    /\ isOpen' = ~isOpen
    /\ lastOp' = NavOp("click", "hamburger", lastOp.index = 1)
    /\ effects' = <<>>
    /\ UNCHANGED <<pageVars, isLanguageOpen>>

\* language button onClick={() => setIsLanguageOpen(!isLanguageOpen)}
ClickLanguageButton ==
    /\ ClickOn("languageButton")
    /\ isLanguageOpen' = ~isLanguageOpen
    /\ lastOp' = NavOp("click", "languageButton", lastOp.index = 1)
    /\ effects' = <<>>
    /\ UNCHANGED <<pageVars, isOpen>>

\* a language of the dropdown: onClick={() => changeLanguage(language.code)}
ChooseLanguage(lng) == ClickOn("languageOption") /\ isLanguageOpen /\ changeLanguage(lng)

\* the Link to /colors-quiz of the mobile menu
ClickMenuLink == ClickOn("menuLink") /\ isOpen /\ MountColorsQuiz

\* a click that no handler of the bar receives
ClickElsewhere ==
    /\ ClickOn("elsewhere")
    /\ lastOp' = NavOp("click", "elsewhere", lastOp.index = 1)
    /\ effects' = <<>>
    /\ UNCHANGED <<pageVars, navVars>>

NavNext ==
    \/ \E target \in NavTargets : MouseDown(target)
    \/ ClickHamburger
    \/ ClickLanguageButton
    \/ \E lng \in languages : ChooseLanguage(lng)
    \/ ClickMenuLink
    \/ ClickElsewhere
    \/ Unmount
    \/ \E i \in 1..Len(timers) : FireSpeakColor(i)

NavSpec == NavInit /\ [][NavNext]_vars

\* ------------------------------------------------- phonetic speech
\* The syllable strings getPhoneticSpeech is applied to.
SyllableStrings == DOMAIN Chars

\* a pool of two tiles with any of the strings on them
PhoneticInit ==
    /\ page = "home"
    /\ language \in {"pt"}
    /\ score = 0 /\ streak = 0 /\ feedback = NULL /\ showParticles = FALSE
    /\ targetColor = NULL /\ options = <<>> /\ isAnswering = FALSE
    /\ currentWord = NULL /\ syllables = <<>>
    /\ shuffledSyllables \in {<<a, b>> : a, b \in SyllableStrings}
    /\ selectedSyllables = <<>> /\ currentIndex = 0
    /\ timers = <<>>
    /\ playback = "plays"
    /\ NoSounds
    /\ NavClosed
    /\ lastOp = Op("init", NULL)
    /\ effects = <<>>

\* const phoneticText = getPhoneticSpeech(syllable); speak(phoneticText, langCode)
SpeakPhonetic(syllable) ==
    /\ lastOp' = Op("getPhoneticSpeech", syllable)
    /\ effects' = <<speak(getPhoneticSpeech(syllable))>>
    /\ UNCHANGED <<page, language, score, streak, feedback, showParticles, colorVars,
                   wordVars, timers, playback, soundVars, navVars>>

PhoneticNext ==
    \E index \in 1..Len(shuffledSyllables) : SpeakPhonetic(shuffledSyllables[index])

PhoneticSpec == PhoneticInit /\ [][PhoneticNext]_vars

\* ------------------------------------------------------------ step kinds
\* The step was taken by the answer handler on an unlocked quiz.
ColorSubmitStep ==
    /\ lastOp'.op = "handleAnswerClick"
    /\ ~isAnswering /\ targetColor # NULL
ColorCorrectStep == ColorSubmitStep /\ lastOp'.arg = targetColor
ColorWrongStep   == ColorSubmitStep /\ lastOp'.arg # targetColor

\* The step was taken by the syllable handler while the word was not complete.
SylPickStep ==
    /\ lastOp'.op = "handleSyllableClick"
    /\ feedback # "complete"
SylExpected == IF currentIndex < Len(syllables) THEN syllables[currentIndex + 1] ELSE "undefined"
SylWrongStep    == SylPickStep /\ lastOp'.arg # SylExpected
SylCorrectStep  == SylPickStep /\ lastOp'.arg = SylExpected
SylCompleteStep == SylCorrectStep /\ Len(selectedSyllables) + 1 = Len(syllables)

TimerStep(kind) == lastOp'.op = "timer" /\ lastOp'.timer.kind = kind
LiveTimerStep(kind) == TimerStep(kind) /\ lastOp'.timer.live

\* The step stays inside one visit of a mini-game.
SameVisit == page # "home" /\ page' = page

\* A startRound of the mounted game is pending: the round is resolving.
Resolving ==
    \E i \in 1..Len(timers) : timers[i].live /\ timers[i].kind \in {"newQuiz", "newWord"}

Count(x, xs) == Cardinality({i \in DOMAIN xs : xs[i] = x})

\* ---------------------------------------------------------------- claims

\* C1: in both controllers every step of a visit leaves score unchanged or
\* adds exactly 10 to it, and it adds 10 only when it handles a correct colour
\* answer or the pick that completes the word.
C1_ScoreOnlyGrowsByTen ==
    [][SameVisit =>
        \/ score' = score
        \/ /\ score' = score + 10
           /\ ColorCorrectStep \/ SylCompleteStep]_vars

C1_Witness ==
    /\ page = "syllables" /\ feedback = "complete" /\ score = 20
    /\ lastOp.op = "handleSyllableClick"

\* C2: in both controllers a wrong submission that is not ignored sets streak
\* to 0, a fully-correct round adds exactly 1 to it, and no other step of a
\* visit changes it.
C2_StreakSteps ==
    [][SameVisit =>
        /\ (ColorWrongStep \/ SylWrongStep) => streak' = 0
        /\ (ColorCorrectStep \/ SylCompleteStep) => streak' = streak + 1
        /\ ~(ColorWrongStep \/ SylWrongStep \/ ColorCorrectStep \/ SylCompleteStep)
              => streak' = streak]_vars

C2_Witness ==
    /\ page = "colors" /\ feedback = "incorrect" /\ streak = 0 /\ score = 10
    /\ lastOp.op = "handleAnswerClick" /\ lastOp.arg \in Range(options) \ {targetColor}

\* C3: ColorsQuiz, once mounted (the first generateNewQuiz has run), always has
\* a non-null target that is one of the options, also after a retry reshuffle.
C3_TargetAmongOptions ==
    page = "colors" => targetColor # NULL /\ targetColor \in Range(options)

C3_Witness ==
    /\ page = "colors" /\ lastOp.op = "timer" /\ lastOp.timer.kind = "retry"
    /\ targetColor \in Range(options) /\ options[1] # targetColor

\* C4: ColorsQuiz: a wrong answer never advances the round.  Within a visit
\* the target changes only when the callback of a correct answer runs
\* generateNewQuiz; a wrong answer schedules no such callback, and neither it
\* nor its retry callback changes the target.
C4_WrongAnswerKeepsRound ==
    [][SameVisit /\ page = "colors" =>
        /\ targetColor' # targetColor => LiveTimerStep("newQuiz") /\ feedback = "correct"
        /\ (ColorWrongStep \/ LiveTimerStep("retry")) => targetColor' = targetColor
        /\ ColorWrongStep => ~Resolving']_vars

C4_Witness ==
    /\ page = "colors" /\ lastOp.op = "timer" /\ lastOp.timer.kind = "retry"
    /\ lastOp.timer.item = targetColor /\ ~isAnswering /\ feedback = NULL /\ streak = 0

\* C5: a wrong submission and the feedback callback that follows it leave score
\* unchanged; in ColorsQuiz they leave the target and the set of options
\* unchanged, in SyllableGame the word, cursor, built and pool.
C5_MismatchIdempotent ==
    [][SameVisit =>
        /\ (ColorWrongStep \/ LiveTimerStep("retry")) =>
              /\ score' = score
              /\ targetColor' = targetColor
              /\ Range(options') = Range(options)
        /\ (SylWrongStep \/ LiveTimerStep("clearFeedback")) =>
              /\ score' = score
              /\ UNCHANGED <<currentWord, syllables, currentIndex,
                             selectedSyllables, shuffledSyllables>>]_vars

C5_Witness ==
    /\ page = "syllables" /\ feedback = "incorrect"
    /\ lastOp.op = "handleSyllableClick"
    /\ \E i \in 1..Len(timers) : timers[i].kind = "clearFeedback" /\ timers[i].delay = 500
    /\ Len(timers) >= 2 /\ selectedSyllables # <<>>

\* C6: SyllableGame: built (selectedSyllables) is always an in-order prefix of
\* the target syllables.
C6_BuiltIsPrefix ==
    page = "syllables" =>
        /\ Len(selectedSyllables) <= Len(syllables)
        /\ \A i \in 1..Len(selectedSyllables) : selectedSyllables[i] = syllables[i]

C6_Witness ==
    /\ page = "syllables" /\ Len(selectedSyllables) = 2 /\ Len(syllables) = 3
    /\ lastOp.op = "handleSyllableClick"

\* C7: SyllableGame: pool and built together hold exactly the target syllables
\* (as multisets), and a correct pick moves the pool entry at the tapped
\* position to the end of built.
C7_PoolPlusBuilt ==
    /\ [](page = "syllables" =>
            \A x \in Range(syllables) \cup Range(shuffledSyllables) \cup Range(selectedSyllables) :
                Count(x, shuffledSyllables) + Count(x, selectedSyllables) = Count(x, syllables))
    /\ [][SameVisit /\ SylCorrectStep =>
            LET index == lastOp'.index
            IN  /\ selectedSyllables' = selectedSyllables \o <<shuffledSyllables[index]>>
                /\ Len(shuffledSyllables') = Len(shuffledSyllables) - 1
                /\ \A j \in 1..Len(shuffledSyllables') :
                      shuffledSyllables'[j] =
                          IF j < index THEN shuffledSyllables[j] ELSE shuffledSyllables[j + 1]]_vars

C7_Witness ==
    /\ page = "syllables" /\ currentWord = "banana"
    /\ selectedSyllables = <<"BA", "NA">> /\ shuffledSyllables = <<"NA">>
    /\ lastOp.op = "handleSyllableClick" /\ lastOp.arg = "NA" /\ lastOp.index = 1

\* C8: after the player navigates away, no callback scheduled during the
\* visit runs any more: none emits a side effect and none executes startRound.
C8_NoCallbackAfterUnmount ==
    [][~(/\ lastOp'.op = "timer"
         /\ ~lastOp'.timer.live
         /\ effects' # <<>> \/ lastOp'.timer.kind \in {"newQuiz", "newWord"})]_vars

\* C9: while a round is resolving (a startRound of the mounted game is
\* pending) input is ignored, so a round awards at most once: no step taken
\* while resolving raises score or streak.
C9_OneAwardPerRound ==
    [][SameVisit /\ Resolving => score' <= score /\ streak' <= streak]_vars

\* C10: ColorsQuiz: handleAnswerClick called while locked (or with no target)
\* changes no state, schedules no callback and emits no side effect.
C10_LockedClickIsNoOp ==
    [][lastOp'.op = "handleAnswerClick" /\ (isAnswering \/ targetColor = NULL) =>
        /\ UNCHANGED <<score, streak, targetColor, options, feedback, isAnswering,
                       showParticles, timers>>
        /\ effects' = <<>>]_vars

C10_Witness ==
    /\ page = "colors" /\ isAnswering /\ feedback = "incorrect"
    /\ lastOp = Op("handleAnswerClick", NULL) /\ effects = <<>>

\* C11: SyllableGame: handleSyllableClick called while feedback is "complete"
\* changes no state, schedules no callback and emits no side effect.
C11_CompletePickIsNoOp ==
    [][lastOp'.op = "handleSyllableClick" /\ feedback = "complete" =>
        /\ UNCHANGED <<score, streak, currentWord, syllables, shuffledSyllables,
                       selectedSyllables, currentIndex, feedback, showParticles, timers>>
        /\ effects' = <<>>]_vars

\* such a call needs a tile in the pool: a language switch refills the pool
\* and leaves feedback at "complete"
C11_Witness ==
    /\ page = "syllables" /\ feedback = "complete" /\ shuffledSyllables # <<>>
    /\ lastOp.op = "handleSyllableClick" /\ lastOp.arg = NULL /\ effects = <<>>

\* C12: ColorsQuiz: when the 2800ms callback of a wrong answer runs, the
\* options become a permutation of the options shown before (the same four
\* colours, the target among them), the target stays, feedback is cleared,
\* the quiz is unlocked and the score is not changed.
C12_RetryReshuffles ==
    [][LiveTimerStep("retry") =>
        /\ Len(options') = Len(options)
        /\ \A c \in Range(colors) : Count(c, options') = Count(c, options)
        /\ targetColor' = targetColor
        /\ \E j \in 1..Len(options') : options'[j] = targetColor
        /\ feedback' = NULL
        /\ isAnswering' = FALSE
        /\ score' = score]_vars

C12_Witness ==
    /\ page = "colors" /\ score = 10
    /\ lastOp.op = "timer" /\ lastOp.timer.kind = "retry" /\ lastOp.timer.live
    /\ ~isAnswering /\ feedback = NULL
    /\ Len(options) = 4 /\ targetColor \in Range(options)

\* C15: SyllableGame: a pick is accepted (appended to the built word, or
\* given the feedback "correct" or "complete") only if the picked syllable is
\* syllables[currentIndex]; a pick of a syllable that occurs later in the
\* word but is not the one at currentIndex sets feedback "incorrect" and streak
\* 0 and leaves the built word, the pool and currentIndex as they were.
C15_OrderSensitive ==
    [][SylPickStep =>
        LET picked == lastOp'.arg
            later  == {syllables[j] : j \in (currentIndex + 2)..Len(syllables)}
        IN  /\ (selectedSyllables' # selectedSyllables \/ feedback' \in {"correct", "complete"})
                  => currentIndex < Len(syllables) /\ picked = syllables[currentIndex + 1]
            /\ (currentIndex < Len(syllables) /\ picked \in later
                    /\ picked # syllables[currentIndex + 1])
                  => /\ feedback' = "incorrect"
                     /\ streak' = 0
                     /\ UNCHANGED <<selectedSyllables, shuffledSyllables, currentIndex>>]_vars

C15_Witness ==
    /\ page = "syllables" /\ currentWord = "bola" /\ syllables = <<"BO", "LA">>
    /\ lastOp.op = "handleSyllableClick" /\ lastOp.arg = "LA"
    /\ currentIndex = 0 /\ selectedSyllables = <<>> /\ Len(shuffledSyllables) = 2
    /\ feedback = "incorrect" /\ streak = 0 /\ score = 10

\* The step runs generateNewWord for the mounted SyllableGame.
WordStartStep == (lastOp'.op = "mount" /\ lastOp'.arg = "syllables") \/ LiveTimerStep("newWord")
\* The step runs generateNewQuiz for the mounted ColorsQuiz.
QuizStartStep == (lastOp'.op = "mount" /\ lastOp'.arg = "colors") \/ LiveTimerStep("newQuiz")

\* C16: SyllableGame: right after every generateNewWord, syllables is the
\* chosen word's syllable sequence for the current language, the pool is a
\* permutation of it (the same multiset), the built word is empty,
\* currentIndex is 0 and feedback is null.
C16_NewWordState ==
    [][WordStartStep =>
        /\ currentWord' \in WordIds
        /\ LET w == WordById(currentWord')
           IN  syllables' = CASE language' = "pt" -> w.syllables_pt
                              [] language' = "en" -> w.syllables_en
                              [] language' = "es" -> w.syllables_es
        /\ Len(shuffledSyllables') = Len(syllables')
        /\ \A x \in Range(syllables') \cup Range(shuffledSyllables') :
              Count(x, shuffledSyllables') = Count(x, syllables')
        /\ selectedSyllables' = <<>>
        /\ currentIndex' = 0
        /\ feedback' = NULL]_vars

C16_Witness ==
    /\ page = "syllables" /\ language = "es" /\ currentWord = "bola"
    /\ lastOp.op = "timer" /\ lastOp.timer.kind = "newWord" /\ lastOp.timer.live
    /\ syllables = <<"PE", "LO", "TA">> /\ shuffledSyllables = <<"TA", "PE", "LO">>
    /\ selectedSyllables = <<>> /\ currentIndex = 0 /\ feedback = NULL /\ score = 10

\* C17: ColorsQuiz: with a dataset of at least four colours of distinct
\* identifiers, options holds exactly four pairwise distinct colours in every
\* state of the mounted quiz, the force-inserted target included.
C17_FourDistinctOptions ==
    page = "colors" =>
        /\ Len(options) = 4
        /\ \A j, k \in 1..Len(options) : j # k => options[j] # options[k]
        /\ Range(options) \subseteq Range(colors)

\* a quiz whose options the force-insert produces: the draw <<blue, green,
\* yellow, purple>> omits the target red, which replaces its first entry
C17_Witness ==
    /\ page = "colors" /\ targetColor = "red"
    /\ Len(colors) > 4
    /\ ~("red" \in Range(SubSeq(<<"blue", "green", "yellow", "purple", "red">>, 1, 4)))
    /\ options \in Shuffles(<<"red", "green", "yellow", "purple">>)
    /\ lastOp.op = "timer" /\ lastOp.timer.kind = "newQuiz"

\* C18: generateNewQuiz and generateNewWord leave score and streak as they
\* were and replace the round: ColorsQuiz gets a target among four fresh
\* options, feedback null and no lock; SyllableGame gets a word with its
\* syllables, a full pool, an empty built word, currentIndex 0 and feedback null.
C18_SessionPersists ==
    /\ [][QuizStartStep =>
            /\ score' = score /\ streak' = streak
            /\ targetColor' \in Range(colors) /\ options' \in QuizOptions[targetColor']
            /\ feedback' = NULL /\ isAnswering' = FALSE]_vars
    /\ [][WordStartStep =>
            /\ score' = score /\ streak' = streak
            /\ currentWord' \in WordIds
            /\ syllables' = getSyllables(currentWord', language)
            /\ shuffledSyllables' \in Shuffles(syllables')
            /\ selectedSyllables' = <<>> /\ currentIndex' = 0 /\ feedback' = NULL]_vars

C18_Witness ==
    /\ lastOp.op = "timer" /\ lastOp.timer.kind \in {"newQuiz", "newWord"} /\ lastOp.timer.live
    /\ score = 20 /\ streak = 2 /\ feedback = NULL /\ ~isAnswering
    /\ page = "colors" /\ targetColor # NULL

\* C20: getLanguageCode gives every language tag of the controller's table
\* the locale the table assigns to it, and every other tag the controller's
\* one default locale: en-US in ColorsQuiz, pt-BR in SyllableGame.
C20_LanguageCode ==
    lastOp.op \in {"ColorsQuiz.getLanguageCode", "SyllableGame.getLanguageCode"} =>
        LET tag  == lastOp.arg
            code == effects[1].arg
        IN  /\ lastOp.op = "ColorsQuiz.getLanguageCode" =>
                  /\ tag = "pt" => code = "pt-BR"
                  /\ tag = "en" => code = "en-US"
                  /\ tag = "es" => code = "es-ES"
                  /\ tag = "fr" => code = "fr-FR"
                  /\ tag = "de" => code = "de-DE"
                  /\ tag = "it" => code = "it-IT"
                  /\ tag = "ja" => code = "ja-JP"
                  /\ tag = "zh" => code = "zh-CN"
                  /\ tag \notin {"pt", "en", "es", "fr", "de", "it", "ja", "zh"}
                        => code = "en-US"
            /\ lastOp.op = "SyllableGame.getLanguageCode" =>
                  /\ tag = "pt" => code = "pt-BR"
                  /\ tag = "en" => code = "en-US"
                  /\ tag = "es" => code = "es-ES"
                  /\ tag \notin {"pt", "en", "es"} => code = "pt-BR"

\* a tag of neither table resolved by ColorsQuiz
C20_Witness ==
    /\ lastOp.op = "ColorsQuiz.getLanguageCode" /\ lastOp.arg = "pt-BR"
    /\ effects = <<Fx("langCode", "en-US")>>

\* C19: whether playback plays, is rejected or throws, no error of
\* playBackgroundMusic, playCorrectSound or playWrongSound reaches its caller:
\* the mount effect completes, and every answer and every pick that plays a
\* sound has the outcome it has when playback succeeds: the same cells, the
\* speech that follows the sound and the callbacks scheduled after it.
C19_AudioFailureHarmless ==
    /\ [](page # "crashed")
    /\ [][lastOp'.op = "mount" =>
            /\ page' = lastOp'.arg /\ feedback' = NULL /\ Len(timers') = 1
            /\ timers'[1].live
            /\ effects' = <<Fx("playBackgroundMusic", 3)>>]_vars
    /\ [][ColorCorrectStep =>
            /\ feedback' = "correct" /\ isAnswering'
            /\ score' = score + 10 /\ streak' = streak + 1
            /\ UNCHANGED <<targetColor, options>>
            /\ Len(effects') = 3 /\ effects'[2] = Fx("playCorrectSound", 5)
            /\ effects'[3].fx = "speak"
            /\ timers' = Append(timers, Timer("newQuiz", 2500, TRUE, NULL))]_vars
    /\ [][ColorWrongStep =>
            /\ feedback' = "incorrect" /\ isAnswering'
            /\ score' = score /\ streak' = 0
            /\ UNCHANGED <<targetColor, options>>
            /\ Len(effects') = 3 /\ effects'[2] = Fx("playWrongSound", 5)
            /\ effects'[3].fx = "speak"
            /\ timers' = Append(timers, Timer("retry", 2800, TRUE, targetColor))]_vars
    /\ [][SylCompleteStep =>
            /\ feedback' = "complete"
            /\ score' = score + 10 /\ streak' = streak + 1
            /\ UNCHANGED <<currentWord, syllables, currentIndex>>
            /\ timers' = timers \o <<Timer("speakWord", 300, TRUE, currentWord),
                                     Timer("newWord", 2500, TRUE, NULL)>>]_vars
    /\ [][SylWrongStep =>
            /\ feedback' = "incorrect"
            /\ score' = score /\ streak' = 0
            /\ UNCHANGED wordVars
            /\ timers' = Append(timers, Timer("clearFeedback", 500, TRUE, NULL))]_vars

\* a second round won in a browser whose playback throws
C19_Witness ==
    /\ playback = "throws"
    /\ page = "colors" /\ lastOp.op = "handleAnswerClick" /\ lastOp.arg = targetColor
    /\ feedback = "correct" /\ isAnswering /\ score = 20 /\ streak = 2
    /\ Len(effects) = 3 /\ effects[2] = Fx("playCorrectSound", 5)
    /\ Resolving

\* The quiz is locked by a wrong answer.
LockedByWrong == page = "colors" /\ isAnswering /\ feedback = "incorrect"

\* C13: ColorsQuiz, timers firing and the player staying on the page: whenever
\* the quiz is locked by a wrong answer it is later unlocked with feedback
\* null, and the lock ends in no other way: the step that ends it unlocks the
\* quiz, clears feedback and keeps the target, as every step before it does.
C13_RetryUnlocks ==
    /\ LockedByWrong ~> (page = "colors" /\ ~isAnswering /\ feedback = NULL)
    /\ [][LockedByWrong =>
            /\ targetColor' = targetColor
            /\ LockedByWrong' \/ (page' = "colors" /\ ~isAnswering' /\ feedback' = NULL)]_vars

\* the quiz unlocked by the retry callback, the target about to be spoken again
C13_Witness ==
    /\ page = "colors" /\ ~isAnswering /\ feedback = NULL /\ streak = 0 /\ score = 0
    /\ lastOp.op = "timer" /\ lastOp.timer.kind = "retry" /\ lastOp.timer.live
    /\ Len(timers) = 1 /\ timers[1] = Timer("speakColor", 300, TRUE, targetColor)

\* C14: a round that was answered or built correctly is followed by one
\* execution of generateNewQuiz / generateNewWord: once that call has run for
\* the mounted game, no second call of it is pending.
C14_StartRoundOncePerRound ==
    [][QuizStartStep \/ WordStartStep => ~Resolving']_vars

\* The characters of cs that a table holds, each by what the builder says
\* for it: a consonant's name, a vowel itself.
Recognised(cs) ==
    LET kept == SelectSeq(cs, LAMBDA ch : ch \in DOMAIN consonantNames \/ ch \in vowels)
    IN  [i \in 1..Len(kept) |->
            IF kept[i] \in DOMAIN consonantNames THEN consonantNames[kept[i]] ELSE kept[i]]

\* pieces joined by ' com ', then ', ' and the syllable; the syllable alone
\* when there is no piece
PhoneticText(pieces, syllable) ==
    IF pieces = <<>> THEN <<syllable>>
    ELSE [i \in 1..(2 * Len(pieces) - 1) |->
              IF i % 2 = 1 THEN pieces[(i + 1) \div 2] ELSE " com "] \o <<", ", syllable>>

SpeakColorPending(queue) == Len(SelectSeq(queue, LAMBDA t : t.kind = "speakColor"))

\* C22: ColorsQuiz, wrong answer: the step that handles it speaks the name of
\* the colour that was clicked and schedules no speech; the speech of the
\* target's name is scheduled only by the retry callback, in the step that
\* clears the feedback and unlocks the quiz, and so runs strictly after that
\* step; what it speaks is the name of the target, which has not changed since
\* the wrong answer, and never the name of the colour that was clicked.  No
\* other step of the quiz schedules a colour speech, except the generateNewQuiz
\* of a correct answer.
C22_WrongThenTargetSpeech ==
    [][SameVisit =>
        /\ ColorWrongStep =>
              /\ lastOp'.arg # targetColor
              /\ effects'[Len(effects')].fx = "speak"
              /\ \A k \in 1..Len(effects') :
                    effects'[k].fx = "speak" =>
                        /\ effects'[k].arg = colorName(lastOp'.arg, language)
                        /\ effects'[k].arg # colorName(targetColor, language)
              /\ SpeakColorPending(timers') = SpeakColorPending(timers)
              /\ timers'[Len(timers')].kind = "retry"
              /\ timers'[Len(timers')].item = targetColor
        /\ LiveTimerStep("retry") =>
              /\ feedback' = NULL /\ isAnswering' = FALSE
              /\ targetColor' = targetColor /\ lastOp'.timer.item = targetColor
              /\ effects' = <<>>
              /\ timers'[Len(timers')] = Timer("speakColor", 300, TRUE, targetColor)
        /\ (page = "colors" /\ ~(LiveTimerStep("retry") \/ LiveTimerStep("newQuiz")))
              => IF lastOp'.op = "timer"
                 THEN Len(timers') < Len(timers)
                 ELSE SpeakColorPending(timers') <= SpeakColorPending(timers)
        /\ LiveTimerStep("speakColor") =>
              /\ effects' = <<speak(colorName(targetColor, language))>>
              /\ targetColor' = targetColor
              /\ lastOp'.timer.item = targetColor]_vars

\* the target's name spoken after the retry of a wrong answer, the quiz
\* unlocked, streak lost and score kept
C22_Witness ==
    /\ page = "colors" /\ score = 10 /\ streak = 0
    /\ lastOp.op = "timer" /\ lastOp.timer.kind = "speakColor" /\ lastOp.timer.live
    /\ effects = <<speak(colorName(targetColor, language))>>
    /\ ~isAnswering /\ feedback = NULL /\ timers = <<>>

\* C23: SyllableGame: from the pick that sets feedback to "complete" until
\* the next generateNewWord runs, feedback stays "complete"; a feedback-clearing
\* callback (300ms or 500ms) scheduled by an earlier pick of the word never
\* sets it back to null.
C23_CompleteUntilNewWord ==
    [][SameVisit /\ page = "syllables" /\ feedback = "complete" /\ ~WordStartStep
          => feedback' = "complete"]_vars

\* The step resolves, in one controller, the tag the other controller
\* resolved in the step before.
SameTagResolvedByBoth ==
    /\ {lastOp.op, lastOp'.op} = {"ColorsQuiz.getLanguageCode", "SyllableGame.getLanguageCode"}
    /\ lastOp'.arg = lastOp.arg

C25_CursorIsBuiltLength ==
    page = "syllables" /\ Len(selectedSyllables) < Len(syllables) =>
        /\ currentIndex = Len(selectedSyllables)
        /\ correctSyllable(syllables, currentIndex) = syllables[Len(selectedSyllables) + 1]

\* the first syllable of the Spanish word picked, two more to go
C25_Witness ==
    /\ page = "syllables" /\ language = "es" /\ currentWord = "bola"
    /\ syllables = <<"PE", "LO", "TA">> /\ selectedSyllables = <<"PE">> /\ currentIndex = 1
    /\ lastOp.op = "handleSyllableClick" /\ lastOp.arg = "PE"
    /\ \E i \in 1..Len(timers) : timers[i].kind = "clearFeedback" /\ timers[i].delay = 300
    /\ Len(timers) >= 2

\* C26: ColorsQuiz: in every state isAnswering is true exactly when feedback
\* is "correct" or "incorrect"; handleAnswerClick sets both in one step, the
\* retry callback and generateNewQuiz clear both in one step.
C26_LockedIffFeedback ==
    /\ [](page = "colors" => (isAnswering <=> feedback \in {"correct", "incorrect"}))
    /\ [][SameVisit /\ page = "colors" =>
            /\ (isAnswering' # isAnswering <=> feedback' # feedback)
            /\ ColorSubmitStep => isAnswering' /\ feedback' \in {"correct", "incorrect"}
            /\ (LiveTimerStep("retry") \/ LiveTimerStep("newQuiz"))
                  => ~isAnswering' /\ feedback' = NULL]_vars

\* locked while the feedback of a first, correct answer is shown
C26_Witness ==
    /\ page = "colors" /\ isAnswering /\ feedback = "correct"
    /\ score = 10 /\ streak = 1 /\ showParticles
    /\ lastOp.op = "handleAnswerClick" /\ lastOp.arg = targetColor
    /\ timers = <<Timer("newQuiz", 2500, TRUE, NULL)>>

\* C27: in both games score is a non-negative multiple of 10 and
\* 10 * streak <= score: every increment of streak comes with an award of 10,
\* and score is never lowered during a visit.
C27_ScoreBoundsStreak ==
    /\ score >= 0 /\ score % 10 = 0
    /\ streak >= 0 /\ 10 * streak <= score

\* a second word completed after a wrong pick: streak 1 behind score 20
C27_Witness ==
    /\ page = "syllables" /\ score = 20 /\ streak = 1 /\ feedback = "complete"
    /\ lastOp.op = "handleSyllableClick" /\ selectedSyllables = syllables

\* C28: SyllableGame: a language change while a word is set restarts the
\* round on the same word: syllables becomes the word's syllables for the new
\* language, the pool a permutation of them, the built word empty and
\* currentIndex 0; currentWord, score, streak and feedback stay as they were,
\* and the step schedules no callback, so it neither awards score nor starts
\* a new word.
C28_LanguageChangeRestartsWord ==
    [][lastOp'.op = "changeLanguage" /\ page = "syllables" /\ currentWord # NULL =>
        /\ language' = lastOp'.arg
        /\ LET w == WordById(currentWord)
           IN  syllables' = CASE language' = "pt" -> w.syllables_pt
                              [] language' = "en" -> w.syllables_en
                              [] language' = "es" -> w.syllables_es
        /\ Len(shuffledSyllables') = Len(syllables')
        /\ \A x \in Range(syllables') \cup Range(shuffledSyllables') :
              Count(x, shuffledSyllables') = Count(x, syllables')
        /\ selectedSyllables' = <<>>
        /\ currentIndex' = 0
        /\ UNCHANGED <<currentWord, score, streak, feedback, showParticles, timers>>
        /\ effects' = <<>>
        /\ ~WordStartStep]_vars

\* the language changed to English right after the first syllable of the
\* second word was picked: the feedback of the pick is still shown
C28_Witness ==
    /\ page = "syllables" /\ lastOp.op = "changeLanguage" /\ lastOp.arg = "en"
    /\ language = "en" /\ currentWord = "bola" /\ syllables = <<"BALL">>
    /\ shuffledSyllables = <<"BALL">> /\ selectedSyllables = <<>> /\ currentIndex = 0
    /\ feedback = "correct" /\ score = 10 /\ streak = 1
    /\ timers = <<Timer("clearFeedback", 300, TRUE, NULL)>>

\* C29: after every call playBackgroundMusic(v) the volume of the background
\* music is v, whatever calls of playBackgroundMusic, stopBackgroundMusic and
\* setBackgroundMusicVolume came before (read for the calls that leave a music
\* element behind and pass a volume the element accepts).
C29_VolumeIsArgument ==
    [][lastOp'.op = "playBackgroundMusic" /\ backgroundMusic'.exists
          /\ VolumeAccepted(lastOp'.index)
          => backgroundMusic'.volume = lastOp'.index]_vars

\* The step calls playBackgroundMusic, directly or from a mount effect.
PlayMusicStep == lastOp'.op \in {"playBackgroundMusic", "mount"}
\* The step calls stopBackgroundMusic, directly or from an effect cleanup.
StopMusicStep == lastOp'.op \in {"stopBackgroundMusic", "unmount"}

\* The number of music elements that are playing.
PlayingElements ==
    (IF backgroundMusic.exists /\ ~backgroundMusic.paused THEN 1 ELSE 0) + detachedPlaying

\* C30: over any sequence of playBackgroundMusic, stopBackgroundMusic,
\* setBackgroundMusicVolume and cleanupSounds calls, mounts and unmounts
\* included, at most one music element is playing; playBackgroundMusic called
\* while the music plays creates no element and leaves the playing one as it
\* is (position included); stopBackgroundMusic leaves the element paused at
\* position 0; cleanupSounds drops an element that it has paused.
C30_OneMusicElement ==
    /\ [](PlayingElements <= 1)
    /\ [][audioCreated' # audioCreated =>
            PlayMusicStep /\ ~backgroundMusic.exists /\ audioCreated' = audioCreated + 1]_vars
    /\ [][PlayMusicStep /\ backgroundMusic.exists /\ ~backgroundMusic.paused
            => UNCHANGED <<backgroundMusic, audioCreated, detachedPlaying>>]_vars
    /\ [][StopMusicStep /\ backgroundMusic.exists =>
            /\ backgroundMusic'.exists /\ backgroundMusic'.paused
            /\ backgroundMusic'.currentTime = 0
            /\ backgroundMusic'.volume = backgroundMusic.volume
            /\ UNCHANGED <<audioCreated, detachedPlaying>>]_vars
    /\ [][lastOp'.op = "cleanupSounds" =>
            /\ ~backgroundMusic'.exists
            /\ detachedPlaying' = 0
            /\ audioCreated' = audioCreated]_vars

\* playBackgroundMusic called while the second element, made after a
\* cleanupSounds, is playing somewhere past its start
C30_Witness ==
    /\ lastOp.op = "playBackgroundMusic" /\ lastOp.index = 10
    /\ backgroundMusic = [exists |-> TRUE, paused |-> FALSE, loop |-> TRUE,
                          volume |-> 3, currentTime |-> 1]
    /\ audioCreated = 2 /\ detachedPlaying = 0 /\ page = "syllables"

\* C31: Navigation: a press on the hamburger button (mousedown, then click)
\* toggles the mobile menu: after the click the menu is open exactly if it
\* was closed when the press began; a press made while the menu is open
\* leaves it closed, the outside-click listener notwithstanding.
C31_HamburgerPressToggles ==
    lastOp.op = "click" /\ lastOp.arg = "hamburger" => (isOpen <=> lastOp.index = 0)

====
